---- MODULE Spec2Model ----
(***************************************************************************)
(* Model of app.py: the POST /parse-pdf handler and the three functions it *)
(* composes (extract_text_from_pdf, remove_extra_spaces_in_uppercase,      *)
(* parse_key_data).                                                        *)
(*                                                                         *)
(* A Python str is a sequence of one-character strings.  A nullable value  *)
(* is a sequence of length at most one: None is <<>>, a present value v is *)
(* <<v>>.  A call that may raise yields [raised |-> TRUE, message |-> m]   *)
(* or [raised |-> FALSE, value |-> v].                                     *)
(***************************************************************************)
EXTENDS Integers, Sequences, FiniteSets, TLC

VARIABLES
    request,      \* the multipart request being served by parse_pdf_api
    outcome,      \* None while the request is pending, else what the handler produced
    s,            \* argument of remove_extra_spaces_in_uppercase
    normalized,   \* None before the call, else <<result, result of a second application>>
    pdf_text,     \* argument of parse_key_data
    key_data      \* None before the call, else the call's outcome

vars == <<request, outcome, s, normalized, pdf_text, key_data>>

None == <<>>
Some(v) == <<v>>

Return(v) == [raised |-> FALSE, value |-> v]
Raise(m) == [raised |-> TRUE, message |-> m]

(***************************************************************************)
(* Bounds of the model.                                                    *)
(***************************************************************************)
MaxLen == 5
MaxFrags == 3
MaxPages == 3

(***************************************************************************)
(* Characters.                                                             *)
(***************************************************************************)
Uppers == <<"A","B","C","D","E","F","G","H","I","J","K","L","M",
            "N","O","P","Q","R","S","T","U","V","W","X","Y","Z">>
Lowers == <<"a","b","c","d","e","f","g","h","i","j","k","l","m",
            "n","o","p","q","r","s","t","u","v","w","x","y","z">>

UpperSet == {Uppers[i] : i \in DOMAIN Uppers}
LowerSet == {Lowers[i] : i \in DOMAIN Lowers}
Digits == <<"0","1","2","3","4","5","6","7","8","9">>
DigitSet == {Digits[i] : i \in DOMAIN Digits}

\* [A-Z]
IsUpper(c) == c \in UpperSet
\* \s of a str pattern (the ASCII members a TLA+ string can spell)
IsSpace(c) == c \in {" ", "\t", "\n", "\r", "\f"}
\* \d
IsDigit(c) == c \in DigitSet
\* str.isalpha() on one ASCII character: a cased letter
IsCased(c) == c \in UpperSet \cup LowerSet

ToUpperMap == [c \in LowerSet |-> Uppers[CHOOSE i \in DOMAIN Lowers : Lowers[i] = c]]
ToLowerMap == [c \in UpperSet |-> Lowers[CHOOSE i \in DOMAIN Uppers : Uppers[i] = c]]
\* str.upper() / str.lower() on one character
UpperChar(c) == IF c \in LowerSet THEN ToUpperMap[c] ELSE c
LowerChar(c) == IF c \in UpperSet THEN ToLowerMap[c] ELSE c

\* str.replace(old, new) for a one-character old; new is a str
RECURSIVE StrReplace(_, _, _)
StrReplace(str, old, new) ==
    IF str = <<>> THEN <<>>
    ELSE (IF Head(str) = old THEN new ELSE <<Head(str)>>)
         \o StrReplace(Tail(str), old, new)

\* the first index j >= i at which str holds no whitespace (Len(str)+1 if none):
\* where a greedy \s* or \s+ that starts at i stops
RECURSIVE SkipSpaces(_, _)
SkipSpaces(str, i) ==
    IF i <= Len(str) /\ IsSpace(str[i]) THEN SkipSpaces(str, i + 1) ELSE i

(***************************************************************************)
(* remove_extra_spaces_in_uppercase                                        *)
(***************************************************************************)
\* One step of the greedy group (?:[A-Z]\s+): from the uppercase letter at i,
\* the index of the uppercase letter that follows its whitespace, or 0.
NextUpper(str, i) ==
    LET j == SkipSpaces(str, i + 1)
    IN  IF j > i + 1 /\ j <= Len(str) /\ IsUpper(str[j]) THEN j ELSE 0

\* The last index of the match of (?:[A-Z]\s+){1,}[A-Z] that starts at the
\* uppercase letter at i, following the group greedily; i itself if the group
\* cannot be taken once.
\* Mutant: the group taken exactly once, as by [A-Z]\s+[A-Z].
RunEndOnce(str, i) ==
    LET j == NextUpper(str, i)
    IN  IF j = 0 THEN i ELSE j

RECURSIVE RunEnd(_, _)
RunEnd(str, i) ==
    LET j == NextUpper(str, i)
    IN  IF j = 0 THEN i ELSE RunEnd(str, j)

\* pattern.match at position i: the index of the match's last character, 0 if
\* the pattern does not match at i.
pattern(str, i) ==
    IF ~IsUpper(str[i]) THEN 0
    ELSE LET e == RunEnd(str, i) IN IF e > i THEN e ELSE 0

\* Mutant: only the first space removed, as by replace(" ", "", 1).
replFirst(match) ==
    IF \E i \in DOMAIN match : match[i] = " "
    THEN LET i == CHOOSE i \in DOMAIN match :
                      match[i] = " " /\ \A k \in 1..(i - 1) : match[k] # " "
         IN  SubSeq(match, 1, i - 1) \o SubSeq(match, i + 1, Len(match))
    ELSE match

\* Mutant: every whitespace character removed, as by "".join(match.split()).
replAllWhitespace(match) == SelectSeq(match, LAMBDA c : ~IsSpace(c))

\* repl: match.group(0).replace(" ", "")
repl(match) == StrReplace(match, " ", <<>>)

\* pattern.sub(repl, str) from index i on: leftmost matches, none overlapping
RECURSIVE sub(_, _)
sub(str, i) ==
    IF i > Len(str) THEN <<>>
    ELSE LET e == pattern(str, i)
         IN  IF e > 0 THEN repl(SubSeq(str, i, e)) \o sub(str, e + 1)
             ELSE <<str[i]>> \o sub(str, i + 1)

remove_extra_spaces_in_uppercase(str) ==
    sub(StrReplace(str, "\n", <<" ">>), 1)

(***************************************************************************)
(* parse_key_data                                                          *)
(***************************************************************************)
Min(S) == CHOOSE x \in S : \A y \in S : x <= y
Max(S) == CHOOSE x \in S : \A y \in S : x >= y

\* str.strip()
strip(str) ==
    LET solid == {i \in DOMAIN str : ~IsSpace(str[i])}
    IN  IF solid = {} THEN <<>> ELSE SubSeq(str, Min(solid), Max(solid))

\* str.title(): a cased letter is upper-cased after an uncased character (or
\* at the start) and lower-cased after a cased one
title(str) ==
    [i \in DOMAIN str |->
        IF ~IsCased(str[i]) THEN str[i]
        ELSE IF i > 1 /\ IsCased(str[i - 1]) THEN LowerChar(str[i])
        ELSE UpperChar(str[i])]

\* str.upper()
upper(str) == [i \in DOMAIN str |-> UpperChar(str[i])]

\* a literal of a re.IGNORECASE pattern matches str at index i
LiteralAt(str, i, lit) ==
    /\ i + Len(lit) - 1 <= Len(str)
    /\ \A k \in DOMAIN lit : LowerChar(str[i + k - 1]) = LowerChar(lit[k])

\* re.search: the match at the leftmost index that has one, attempts[i] being
\* what the pattern matches at index i
search(attempts) ==
    LET hits == {i \in DOMAIN attempts : attempts[i] # None}
    IN  IF hits = {} THEN None ELSE attempts[Min(hits)]

\* r"(280\s+RICHARDS)" at index i
prop_name_at(str, i) ==
    IF ~LiteralAt(str, i, <<"2","8","0">>) THEN None
    ELSE LET j == SkipSpaces(str, i + 3)
         IN  IF j > i + 3 /\ LiteralAt(str, j, <<"R","I","C","H","A","R","D","S">>)
             THEN Some([group1 |-> SubSeq(str, i, j + 7)])
             ELSE None

\* prop_name_match.group(1).strip().title() if prop_name_match else None
property_name_of(prop_name_match) ==
    IF prop_name_match # None
    THEN Some(title(strip(prop_name_match[1].group1)))
    ELSE None

\* r"(BROOKLYN)[,]?\s*(NEWYOR(?:CITY)?)" at index i
address_at(str, i) ==
    IF ~LiteralAt(str, i, <<"B","R","O","O","K","L","Y","N">>) THEN None
    ELSE LET a == i + 8
             b == IF a <= Len(str) /\ str[a] = "," THEN a + 1 ELSE a
             c == SkipSpaces(str, b)
         IN  IF ~LiteralAt(str, c, <<"N","E","W","Y","O","R">>) THEN None
             ELSE Some([group1 |-> SubSeq(str, i, i + 7),
                        group2 |-> IF LiteralAt(str, c + 6, <<"C","I","T","Y">>)
                                   THEN SubSeq(str, c, c + 9)
                                   ELSE SubSeq(str, c, c + 5)])

address_of(address_match) ==
    IF address_match # None
    THEN LET borough == title(address_match[1].group1)
             ny_variant == upper(address_match[1].group2)
             ny == IF ny_variant = <<"N","E","W","Y","O","R","C","I","T","Y">> THEN <<"N","e","w"," ","Y","o","r","k"," ","C","i","t","y">>
                   ELSE IF ny_variant = <<"N","E","W","Y","O","R">> THEN <<"N","e","w"," ","Y","o","r","k">>
                   ELSE title(ny_variant)
         IN  Some(borough \o <<",", " ">> \o ny)
    ELSE None

\* the last index of the greedy run [\d,]+ that starts at i
RECURSIVE DigitCommaRunEnd(_, _)
DigitCommaRunEnd(str, i) ==
    IF i < Len(str) /\ (IsDigit(str[i + 1]) \/ str[i + 1] = ",")
    THEN DigitCommaRunEnd(str, i + 1) ELSE i

\* the last index of the greedy run \d+ that starts at i
RECURSIVE DigitRunEnd(_, _)
DigitRunEnd(str, i) ==
    IF i < Len(str) /\ IsDigit(str[i + 1]) THEN DigitRunEnd(str, i + 1) ELSE i

\* r"([\d,]+)\s*(?:square\s*feet|sf)" at index i
sqft_at(str, i) ==
    IF ~(IsDigit(str[i]) \/ str[i] = ",") THEN None
    ELSE LET e == DigitCommaRunEnd(str, i)
             j == SkipSpaces(str, e + 1)
         IN  IF \/ /\ LiteralAt(str, j, <<"s","q","u","a","r","e">>)
                   /\ LiteralAt(str, SkipSpaces(str, j + 6), <<"f","e","e","t">>)
                \/ LiteralAt(str, j, <<"s","f">>)
             THEN Some([group1 |-> SubSeq(str, i, e)])
             ELSE None

\* r"(\d+)\s*K" at index i
k_at(str, i) ==
    IF ~IsDigit(str[i]) THEN None
    ELSE LET e == DigitRunEnd(str, i)
         IN  IF LiteralAt(str, SkipSpaces(str, e + 1), <<"K">>)
             THEN Some([group1 |-> SubSeq(str, i, e)])
             ELSE None

DigitValue(c) == (CHOOSE i \in DOMAIN Digits : Digits[i] = c) - 1

RECURSIVE DecimalValue(_)
DecimalValue(str) ==
    IF str = <<>> THEN 0
    ELSE 10 * DecimalValue(SubSeq(str, 1, Len(str) - 1)) + DigitValue(str[Len(str)])

\* int(str) for a str of digits: ValueError on the empty str
int(str) ==
    IF str = <<>> \/ \E i \in DOMAIN str : ~IsDigit(str[i])
    THEN Raise("invalid literal for int() with base 10")
    ELSE Return(DecimalValue(str))

\* Mutant: the ValueError of int() not caught.
try_int_uncaught(str, factor) ==
    LET r == int(str)
    IN  IF r.raised THEN r ELSE Return(Some(r.value * factor))

\* try: sqft = int(str) * factor / except ValueError: sqft = None
try_int(str, factor) ==
    LET r == int(str)
    IN  IF r.raised THEN Return(None) ELSE Return(Some(r.value * factor))

\* Mutant: the "K" pattern tried first.
sqft_k_first(cleaned_text) ==
    LET sqft_match == search([i \in DOMAIN cleaned_text |-> sqft_at(cleaned_text, i)])
        k_match == search([i \in DOMAIN cleaned_text |-> k_at(cleaned_text, i)])
    IN  IF k_match # None THEN try_int(k_match[1].group1, 1000)
        ELSE IF sqft_match # None
        THEN try_int(StrReplace(sqft_match[1].group1, ",", <<>>), 1)
        ELSE Return(None)

\* the square-footage branch: what it leaves in sqft, or the exception
sqft_of(cleaned_text) ==
    LET sqft_match == search([i \in DOMAIN cleaned_text |-> sqft_at(cleaned_text, i)])
        k_match == search([i \in DOMAIN cleaned_text |-> k_at(cleaned_text, i)])
    IN  IF sqft_match # None
        THEN try_int(StrReplace(sqft_match[1].group1, ",", <<>>), 1)
        ELSE IF k_match # None THEN try_int(k_match[1].group1, 1000)
        ELSE Return(None)

parse_key_data(text) ==
    LET cleaned_text == remove_extra_spaces_in_uppercase(text)
        property_name == property_name_of(search([i \in DOMAIN cleaned_text |-> prop_name_at(cleaned_text, i)]))
        address == address_of(search([i \in DOMAIN cleaned_text |-> address_at(cleaned_text, i)]))
        sqft == sqft_of(cleaned_text)
    IN  IF sqft.raised THEN sqft
        ELSE Return([property_name |-> property_name,
                     address |-> address,
                     total_rentable_square_footage |-> sqft.value])

(***************************************************************************)
(* extract_text_from_pdf                                                   *)
(*                                                                         *)
(* A file stream is [error, pages]: error is the message of the exception  *)
(* PyPDF2 raises on it (None for a readable PDF) and pages the values of   *)
(* page.extract_text() in page order, each None or a str.                  *)
(***************************************************************************)
\* Mutant: every page appended, without the test of page_text.
RECURSIVE page_loop_unfiltered(_)
page_loop_unfiltered(pages) ==
    IF pages = <<>> THEN <<>>
    ELSE (IF Head(pages) = None THEN <<"N", "o", "n", "e">> ELSE Head(pages)[1])
         \o <<"\n">> \o page_loop_unfiltered(Tail(pages))

\* the loop over reader.pages: text += page_text + "\n" if page_text
RECURSIVE page_loop(_)
page_loop(pages) ==
    IF pages = <<>> THEN <<>>
    ELSE (IF Head(pages) # None /\ Head(pages)[1] # <<>>
          THEN Head(pages)[1] \o <<"\n">>
          ELSE <<>>)
         \o page_loop(Tail(pages))

extract_text_from_pdf(file_stream) ==
    IF file_stream.error # None
    THEN Raise("Error processing PDF file: " \o file_stream.error[1])
    ELSE Return(page_loop(file_stream.pages))

(***************************************************************************)
(* parse_pdf_api                                                           *)
(*                                                                         *)
(* A request is [files]: None without a "file" part, else the upload       *)
(* [filename, read_error, stream], read_error the message of the exception *)
(* pdf_file.read() raises (None if it reads).  What the handler produces   *)
(* is [responses, unhandled, steps, pdf_text, key_data]: the responses     *)
(* returned, the exception that left the handler, the calls of the try     *)
(* block that ran, and the two locals once they are bound.                 *)
(***************************************************************************)
jsonify(body, status) == [status |-> status, body |-> body]

Responded(response, steps, text, data) ==
    [responses |-> <<response>>, unhandled |-> None, steps |-> steps,
     pdf_text |-> text, key_data |-> data]

\* Mutant: a square footage of 0 taken for missing too, as by "if not all(key_data.values())".
any_falsy(data) ==
    \/ \E k \in DOMAIN data : data[k] = None
    \/ data.total_rentable_square_footage = Some(0)

\* None in key_data.values()
none_in_values(data) == \E k \in DOMAIN data : data[k] = None

\* Mutant: no except clause around the processing.
no_except(message, steps, text, data) ==
    [responses |-> <<>>, unhandled |-> Some(message), steps |-> steps,
     pdf_text |-> text, key_data |-> data]

\* except Exception as e: return jsonify({"error": str(e)}), 500
except_clause(message, steps, text, data) ==
    Responded(jsonify([error |-> message], 500), steps, text, data)

\* the try block, from pdf_file.read() on
try_block(pdf_file) ==
    IF pdf_file.read_error # None
    THEN except_clause(pdf_file.read_error[1], <<"read">>, None, None)
    ELSE
    LET text == extract_text_from_pdf(pdf_file.stream)
    IN  IF text.raised
        THEN except_clause(text.message, <<"read", "extract_text_from_pdf">>, None, None)
        ELSE
        LET data == parse_key_data(text.value)
            steps == <<"read", "extract_text_from_pdf", "parse_key_data">>
        IN  IF data.raised
            THEN except_clause(data.message, steps, Some(text.value), None)
            ELSE IF none_in_values(data.value)
            THEN Responded(
                     jsonify([error |-> "Could not reliably extract all key information.",
                              extracted |-> data.value], 422),
                     steps, Some(text.value), Some(data.value))
            ELSE Responded(jsonify(data.value, 200),
                           steps, Some(text.value), Some(data.value))

parse_pdf_api(req) ==
    IF req.files = None
    THEN Responded(jsonify([error |-> "No file part in the request."], 400),
                   <<>>, None, None)
    ELSE IF req.files[1].filename = ""
    THEN Responded(jsonify([error |-> "No selected file."], 400), <<>>, None, None)
    ELSE try_block(req.files[1])

(***************************************************************************)
(* Spec: one request, drawn from Requests, served by parse_pdf_api.        *)
(* Requests share no state, so one request is one behaviour.               *)
(***************************************************************************)
PageTexts == {
    <<"2","8","0"," ","R","i","c","h","a","r","d","s">>,
    <<"B","R","O","O","K","L","Y","N",",","N","E","W","Y","O","R","C","I","T","Y">>,
    <<"3","1","2",",","0","0","0"," ","s","f">>,
    <<"0"," ","s","f">> }

PageValues == {None, Some(<<>>)} \cup {Some(p) : p \in PageTexts}

Streams ==
    [error : {None, Some("EOF marker not found")},
     pages : UNION {[1..n -> PageValues] : n \in 0..MaxPages}]

Requests ==
    {[files |-> None]} \cup
    {[files |-> Some(f)] :
        f \in [filename : {"", "lease.pdf"},
               read_error : {None, Some("stream closed")},
               stream : Streams]}

Init ==
    /\ request \in Requests
    /\ outcome = None
    /\ s = <<>> /\ normalized = None
    /\ pdf_text = <<>> /\ key_data = None

\* POST /parse-pdf
ParsePdfApi ==
    /\ outcome = None
    /\ outcome' = Some(parse_pdf_api(request))
    /\ UNCHANGED <<request, s, normalized, pdf_text, key_data>>

Next == ParsePdfApi

Spec == Init /\ [][Next]_vars

(***************************************************************************)
(* Inputs of the normalizer: every string of at most MaxLen characters     *)
(* over NormAlphabet, and the docstring's example.                         *)
(***************************************************************************)
NormAlphabet == {"A", "B", "a", "1", ",", " ", "\n", "\t"}
BoundedStrings == UNION {[1..n -> NormAlphabet] : n \in 0..MaxLen}
DocExample == <<"B"," ","R"," ","O"," ","O"," ","K"," ","L","Y"," ","N">>
NormInputs == BoundedStrings \cup {DocExample}

(***************************************************************************)
(* SpecNormalize: the normalizer applied to a bounded input, then applied  *)
(* again to its own output.                                                *)
(***************************************************************************)
InitNormalize ==
    /\ s \in NormInputs
    /\ normalized = None
    /\ request = None /\ outcome = None
    /\ pdf_text = <<>> /\ key_data = None

\* normalized := [remove_extra_spaces_in_uppercase(s)]
Normalize ==
    /\ normalized = None
    /\ normalized' = <<remove_extra_spaces_in_uppercase(s)>>
    /\ UNCHANGED <<s, request, outcome, pdf_text, key_data>>

\* the normalizer applied to its own output
NormalizeAgain ==
    /\ Len(normalized) = 1
    /\ normalized' = Append(normalized, remove_extra_spaces_in_uppercase(normalized[1]))
    /\ UNCHANGED <<s, request, outcome, pdf_text, key_data>>

NextNormalize == Normalize \/ NormalizeAgain

SpecNormalize == InitNormalize /\ [][NextNormalize]_vars

(***************************************************************************)
(* Vocabulary of the normalizer's claims, stated on positions of a string  *)
(* and independent of the scan above.                                      *)
(***************************************************************************)
AsciiUpper(c) == c \in UpperSet
AsciiSpace(c) == c \in {" ", "\t", "\n", "\r", "\f"}

\* str[a] and str[b] are uppercase letters with only whitespace, and at least
\* one character of it, between them
UpperGap(str, a, b) ==
    /\ a + 1 < b
    /\ AsciiUpper(str[a]) /\ AsciiUpper(str[b])
    /\ \A k \in (a + 1)..(b - 1) : AsciiSpace(str[k])

HasUpperGap(str) == \E a, b \in DOMAIN str : UpperGap(str, a, b)

\* position i lies in the whitespace between two uppercase letters
InUpperGap(str, i) == \E a, b \in DOMAIN str : a < i /\ i < b /\ UpperGap(str, a, b)

NewlinesAsSpaces(str) == [i \in DOMAIN str |-> IF str[i] = "\n" THEN " " ELSE str[i]]

\* str without the characters at the positions that satisfy Drop
Without(str, Drop(_)) ==
    LET kept == SelectSeq([i \in DOMAIN str |-> i], LAMBDA i : ~Drop(i))
    IN  [k \in DOMAIN kept |-> str[kept[k]]]

\* the input with newlines as spaces and the spaces between two uppercase
\* letters deleted, every other character kept in place
SpacesBetweenUppersDeleted(str) ==
    LET t == NewlinesAsSpaces(str)
    IN  Without(t, LAMBDA i : t[i] = " " /\ InUpperGap(t, i))

Brooklyn == <<"B","R","O","O","K","L","Y","N">>

\* C3: the normalizer is idempotent: applied to its own output it returns
\* that output unchanged.
C3_Idempotent == Len(normalized) = 2 => normalized[2] = normalized[1]

\* an input with a tab and an uppercase run, normalized twice, the first pass
\* having changed it
C3_Witness ==
    /\ Len(normalized) = 2
    /\ normalized[1] # s
    /\ \E i \in DOMAIN s : s[i] = "\t"
    /\ HasUpperGap(s)

\* C4 as stated: the output holds no uppercase letter separated from a
\* following uppercase letter by whitespace only, and the docstring's example
\* becomes "BROOKLYN".
C4_NoWhitespaceBetweenUppers ==
    Len(normalized) >= 1 =>
        /\ ~HasUpperGap(normalized[1])
        /\ (s = DocExample => normalized[1] = Brooklyn)

\* C4 amended: within the matched runs every space (a newline counts as one)
\* is deleted and other whitespace is kept: no whitespace that separates two
\* uppercase letters of the output holds a space or a newline, and the
\* docstring's example becomes "BROOKLYN".
C4_NoSpaceBetweenUppers ==
    Len(normalized) >= 1 =>
        /\ \A i \in DOMAIN normalized[1] :
              InUpperGap(normalized[1], i) => normalized[1][i] \notin {" ", "\n"}
        /\ (s = DocExample => normalized[1] = Brooklyn)

\* uppercase letters separated by a space and a newline have been joined
C4_Witness ==
    /\ Len(normalized) >= 1
    /\ HasUpperGap(s)
    /\ \E i \in DOMAIN s : s[i] = " "
    /\ \E i \in DOMAIN s : s[i] = "\n"
    /\ Len(normalized[1]) = Len(s) - 2
    /\ ~HasUpperGap(normalized[1])

\* C5: the output is the input with each newline turned into a space and the
\* spaces between two uppercase letters deleted, nothing else changed; an
\* input without whitespace-separated uppercase letters only has its newlines
\* replaced.
C5_OnlyUpperGapsChange ==
    Len(normalized) >= 1 =>
        /\ normalized[1] = SpacesBetweenUppersDeleted(s)
        /\ (~HasUpperGap(s) => normalized[1] = NewlinesAsSpaces(s))

\* an input with a newline, and a space next to a lowercase letter or a digit,
\* and no whitespace-separated uppercase letters, has been normalized
C5_Witness ==
    /\ Len(normalized) >= 1
    /\ ~HasUpperGap(s)
    /\ \E i \in DOMAIN s : s[i] = "\n"
    /\ \E i \in DOMAIN s : i < Len(s) /\ s[i] \in {"a", "1", ","} /\ s[i + 1] = " "
    /\ \E i \in DOMAIN s : AsciiUpper(s[i])

(***************************************************************************)
(* SpecParse: parse_key_data applied to a text made of at most MaxFrags    *)
(* fragments, each a piece of the one document template the patterns are   *)
(* written for.                                                            *)
(***************************************************************************)
Fragments == {
    <<" ","2","8","0"," "," ","R","i","c","h","a","r","d","s">>,
    <<" ","2","8","0","\n","R","I","C","H","A","R","D","S">>,
    <<" ","2","8","0","r","i","c","h","a","r","d","s">>,
    <<" ","2","8","0"," ","R"," ","I"," ","C"," ","H"," ","A"," ","R"," ","D"," ","S">>,
    <<"B","r","o","o","k","l","y","n",","," ","N","e","w"," ","Y","o","r","k"," ","C","i","t","y">>,
    <<"B","R","O","O","K","L","Y","N",","," ","N","E","W"," ","Y","O","R","K"," ","C","I","T","Y">>,
    <<"B"," ","R"," ","O"," ","O"," ","K"," ","L","Y"," ","N",","," ","N"," ","E"," ","W"," ","Y"," ","O"," ","R"," ","K"," ","C"," ","I"," ","T"," ","Y">>,
    <<"B","R","O","O","K","L","Y","N",",","N","E","W","Y","O","R","C","I","T","Y">>,
    <<" ","3","1","2",",","0","0","0"," ","s","q","u","a","r","e"," ","f","e","e","t">>,
    <<" ","3","1","2">>,
    <<" ","3","1","2","K">>,
    <<",">>,
    <<"s","f">> }

RECURSIVE Concat(_)
Concat(strs) == IF strs = <<>> THEN <<>> ELSE Head(strs) \o Concat(Tail(strs))

ParseInputs == {Concat(fs) : fs \in UNION {[1..n -> Fragments] : n \in 0..MaxFrags}}

InitParse ==
    /\ pdf_text \in ParseInputs
    /\ key_data = None
    /\ request = None /\ outcome = None
    /\ s = <<>> /\ normalized = None

\* key_data := parse_key_data(pdf_text), or the exception it raised
ParseKeyData ==
    /\ key_data = None
    /\ key_data' = Some(parse_key_data(pdf_text))
    /\ UNCHANGED <<pdf_text, request, outcome, s, normalized>>

NextParse == ParseKeyData

SpecParse == InitParse /\ [][NextParse]_vars

(***************************************************************************)
(* Vocabulary of the field extractor's claims: occurrences of the three    *)
(* patterns, stated on the positions of a text.                            *)
(***************************************************************************)
\* the word w stands at index i of t, in any letter case
WordAt(t, i, w) ==
    /\ i + Len(w) - 1 <= Len(t)
    /\ \A k \in DOMAIN w : LowerChar(t[i + k - 1]) = LowerChar(w[k])

\* the first index from i on that holds no whitespace
AfterSpaces(t, i) ==
    Min({j \in i..(Len(t) + 1) : j = Len(t) + 1 \/ ~AsciiSpace(t[j])})

\* t holds w somewhere, letter for letter
Contains(t, w) == \E i \in DOMAIN t : i + Len(w) - 1 <= Len(t) /\ SubSeq(t, i, i + Len(w) - 1) = w

\* "280", one or more whitespace characters, "Richards", in any letter case
NameOccursAt(t, i) ==
    /\ WordAt(t, i, <<"2","8","0">>)
    /\ AfterSpaces(t, i + 3) > i + 3
    /\ WordAt(t, AfterSpaces(t, i + 3), <<"r","i","c","h","a","r","d","s">>)

NameOccurs(t) == \E i \in DOMAIN t : NameOccursAt(t, i)

\* "BROOKLYN", an optional comma, optional whitespace, "NEWYOR", in any case
AddressOccurs(t) ==
    \E i \in DOMAIN t :
        /\ WordAt(t, i, <<"b","r","o","o","k","l","y","n">>)
        /\ \/ WordAt(t, AfterSpaces(t, i + 8), <<"n","e","w","y","o","r">>)
           \/ i + 8 <= Len(t) /\ t[i + 8] = "," /\ WordAt(t, AfterSpaces(t, i + 9), <<"n","e","w","y","o","r">>)

IsDigitOrComma(c) == c \in DigitSet \cup {","}
IsDigitChar(c) == c \in DigitSet

\* the maximal runs <<first, last>> of characters of a class in t
Runs(t, In(_)) ==
    {<<i, Min({j \in i..Len(t) : j = Len(t) \/ ~In(t[j + 1])})>> :
        i \in {i \in DOMAIN t : In(t[i]) /\ (i = 1 \/ ~In(t[i - 1]))}}

\* "square feet" (any whitespace, or none, between the words) or "sf" at j
UnitAt(t, j) ==
    \/ WordAt(t, j, <<"s","f">>)
    \/ WordAt(t, j, <<"s","q","u","a","r","e">>) /\ WordAt(t, AfterSpaces(t, j + 6), <<"f","e","e","t">>)

\* runs of digits and commas followed, after optional whitespace, by the unit
SqftRuns(t) == {r \in Runs(t, IsDigitOrComma) : UnitAt(t, AfterSpaces(t, r[2] + 1))}

\* runs of digits followed, after optional whitespace, by "K" or "k"
KRuns(t) == {r \in Runs(t, IsDigitChar) : WordAt(t, AfterSpaces(t, r[2] + 1), <<"K">>)}

HasDigit(t, r) == \E i \in r[1]..r[2] : IsDigitChar(t[i])

\* the leftmost run of a nonempty set of runs
First(runs) == CHOOSE r \in runs : \A q \in runs : r[1] <= q[1]

\* the number a run spells once its commas are stripped
RunValue(t, r) == DecimalValue(SelectSeq(SubSeq(t, r[1], r[2]), IsDigitChar))

Cleaned == remove_extra_spaces_in_uppercase(pdf_text)
Parsed == key_data[1].value
Returned == key_data # None /\ ~key_data[1].raised

Name280Richards == <<"2","8","0"," ","R","i","c","h","a","r","d","s">>
BrooklynNewYorkCity == <<"B","r","o","o","k","l","y","n",","," ","N","e","w"," ","Y","o","r","k"," ","C","i","t","y">>

\* C6 as stated: a text with "280", whitespace and "Richards" in any letter
\* case gives property_name "280 Richards"; a text without gives None.
C6_PropertyName ==
    key_data # None =>
        /\ Returned
        /\ NameOccurs(pdf_text) => Parsed.property_name = Some(Name280Richards)
        /\ ~NameOccurs(pdf_text) => Parsed.property_name = None

\* C7 as stated: a text containing "Brooklyn, New York City" in mixed case, in
\* upper case or letter-spaced upper case gives that address.
C7_Address ==
    key_data # None =>
        /\ Returned
        /\ (\/ Contains(pdf_text, <<"B","r","o","o","k","l","y","n",","," ","N","e","w"," ","Y","o","r","k"," ","C","i","t","y">>)
            \/ Contains(pdf_text, <<"B","R","O","O","K","L","Y","N",","," ","N","E","W"," ","Y","O","R","K"," ","C","I","T","Y">>)
            \/ Contains(pdf_text, <<"B"," ","R"," ","O"," ","O"," ","K"," ","L","Y"," ","N",","," ","N"," ","E"," ","W"," ","Y"," ","O"," ","R"," ","K"," ","C"," ","I"," ","T"," ","Y">>))
           => Parsed.address = Some(BrooklynNewYorkCity)

\* C8 as stated: digits (with optional commas) before "square feet" or "sf"
\* give that number, whatever "K" pattern occurs; without such a phrase,
\* digits before "K" give the digits times 1000; with neither, None.
C8_SqftPrecedence ==
    key_data # None =>
        /\ Returned
        /\ LET text == Cleaned
               phrases == {r \in SqftRuns(text) : HasDigit(text, r)}
               ks == KRuns(text)
           IN  Parsed.total_rentable_square_footage =
                   IF phrases # {} THEN Some(RunValue(text, First(phrases)))
                   ELSE IF ks # {} THEN Some(RunValue(text, First(ks)) * 1000)
                   ELSE None

\* C8 amended: the leftmost run of digits and commas before "square feet" or
\* "sf" decides the field, whatever "K" pattern occurs: its digits as an
\* integer, or None when the run holds no digit; without such a run, the
\* leftmost digits before "K" give the digits times 1000; with neither, None.
C8_SqftPrecedenceLeftmostRun ==
    key_data # None =>
        /\ Returned
        /\ LET text == Cleaned
               runs == SqftRuns(text)
               ks == KRuns(text)
           IN  Parsed.total_rentable_square_footage =
                   IF runs # {}
                   THEN (IF HasDigit(text, First(runs))
                         THEN Some(RunValue(text, First(runs)))
                         ELSE None)
                   ELSE IF ks # {} THEN Some(RunValue(text, First(ks)) * 1000)
                   ELSE None

\* a text with digits before "K" and, after them, digits before the unit has
\* been parsed, and the unit's number taken
C8_Witness ==
    /\ Returned
    /\ SqftRuns(Cleaned) # {} /\ KRuns(Cleaned) # {}
    /\ First(KRuns(Cleaned))[1] < First(SqftRuns(Cleaned))[1]
    /\ Parsed.total_rentable_square_footage = Some(312)

\* C9: parse_key_data never raises and returns exactly the three keys; a
\* field whose pattern is absent is None, as is a square footage whose
\* matched run holds no digit; a square footage is otherwise a natural number.
C9_Total ==
    key_data # None =>
        /\ Returned
        /\ DOMAIN Parsed = {"property_name", "address", "total_rentable_square_footage"}
        /\ LET text == Cleaned
               runs == SqftRuns(text)
               sqft == Parsed.total_rentable_square_footage
           IN  /\ NameOccurs(text) <=> Parsed.property_name # None
               /\ AddressOccurs(text) <=> Parsed.address # None
               /\ runs = {} /\ KRuns(text) = {} => sqft = None
               /\ runs # {} /\ ~HasDigit(text, First(runs)) => sqft = None
               /\ sqft # None => sqft[1] \in Nat

\* a text whose leftmost match before "sf" is commas only, with no name and
\* no address in it, has been parsed to three None fields
C9_Witness ==
    /\ Returned
    /\ SqftRuns(Cleaned) # {} /\ ~HasDigit(Cleaned, First(SqftRuns(Cleaned)))
    /\ KRuns(Cleaned) # {}
    /\ Parsed = [property_name |-> None, address |-> None,
                 total_rentable_square_footage |-> None]

(***************************************************************************)
(* Claims about the handler and the text extractor, under Spec.            *)
(***************************************************************************)
Handled == outcome # None
Out == outcome[1]
Upload == request.files[1]
Response == Out.responses[1]

\* the request names a file: it passes the two checks before the try block
Wellformed == request.files # None /\ Upload.filename # ""

\* the PDF text was extracted without error
TextExtracted == Wellformed /\ Upload.read_error = None /\ Upload.stream.error = None

AllThreePresent(record) ==
    /\ record.property_name # None
    /\ record.address # None
    /\ record.total_rentable_square_footage # None

\* C1: once the text is extracted without error, the answer is 200 with
\* exactly the record when its three fields are all non-null (a square
\* footage of 0 is present), and otherwise 422 with the fixed message and
\* the Field Extractor's partial record under "extracted".
C1_CompleteOr422 ==
    Handled /\ TextExtracted =>
        /\ Len(Out.responses) = 1
        /\ Out.pdf_text # None
        /\ LET record == parse_key_data(Out.pdf_text[1]).value
           IN  IF AllThreePresent(record)
               THEN Response = [status |-> 200, body |-> record]
               ELSE Response =
                        [status |-> 422,
                         body |-> [error |-> "Could not reliably extract all key information.",
                                   extracted |-> record]]

\* a PDF with the name, the address and a square footage of 0 was answered 200
C1_Witness ==
    /\ Handled /\ TextExtracted
    /\ Len(Out.responses) = 1
    /\ Response.status = 200
    /\ Response.body.total_rentable_square_footage = Some(0)

\* C2: every request ends in exactly one response and no unhandled fault; a
\* request without a file part or with an empty filename is answered 400
\* before any step of the processing runs; a failure of the read or of the
\* text extraction is answered 500 with {"error": <its message>}, and 500 is
\* answered for nothing else.
C2_OneResponseNoFault ==
    Handled =>
        /\ Len(Out.responses) = 1
        /\ Out.unhandled = None
        /\ ~Wellformed => Response.status = 400 /\ Out.steps = <<>>
        /\ request.files = None =>
               Response.body = [error |-> "No file part in the request."]
        /\ request.files # None /\ Upload.filename = "" =>
               Response.body = [error |-> "No selected file."]
        /\ Wellformed /\ Upload.read_error # None =>
               Response = [status |-> 500, body |-> [error |-> Upload.read_error[1]]]
        /\ Wellformed /\ Upload.read_error = None /\ Upload.stream.error # None =>
               Response = [status |-> 500,
                           body |-> [error |-> "Error processing PDF file: "
                                                   \o Upload.stream.error[1]]]
        /\ TextExtracted => Response.status \in {200, 422}

\* an unreadable PDF was answered 500 with the wrapped message
C2_Witness ==
    /\ Handled /\ Wellformed
    /\ Upload.read_error = None /\ Upload.stream.error # None
    /\ Len(Out.responses) = 1
    /\ Response.status = 500
    /\ Out.steps = <<"read", "extract_text_from_pdf">>

\* the pages that have text, in page order
PagesWithText == SelectSeq(Upload.stream.pages, LAMBDA p : p # None /\ p # Some(<<>>))

\* strs joined by the separator sep
RECURSIVE Join(_, _)
Join(strs, sep) ==
    IF strs = <<>> THEN <<>>
    ELSE IF Len(strs) = 1 THEN strs[1]
    ELSE strs[1] \o sep \o Join(Tail(strs), sep)

\* C10 as stated: the texts of the pages that have text, in page order,
\* joined by "\n" as a separator; no "None"; "" if no page has text.
C10_JoinedBySeparator ==
    Handled /\ TextExtracted =>
        /\ Out.pdf_text # None
        /\ Out.pdf_text[1] = Join([i \in DOMAIN PagesWithText |-> PagesWithText[i][1]], <<"\n">>)

\* C10 amended: each page that has text contributes its text followed by a
\* "\n" (a terminator, so the result of a PDF with text ends in "\n"), in page
\* order; a page without text contributes nothing and never "None"; the
\* result is "" if no page has text.
C10_TerminatedByNewline ==
    Handled /\ TextExtracted =>
        /\ Out.pdf_text # None
        /\ Out.pdf_text[1] =
               Concat([i \in DOMAIN PagesWithText |-> PagesWithText[i][1] \o <<"\n">>])
        /\ ~Contains(Out.pdf_text[1], <<"N", "o", "n", "e">>)
        /\ PagesWithText = <<>> => Out.pdf_text[1] = <<>>

\* a PDF with a page without text between two different pages of text has
\* been extracted
C10_Witness ==
    /\ Handled /\ TextExtracted
    /\ \E i, k, l \in DOMAIN Upload.stream.pages :
          /\ Upload.stream.pages[i] = None
          /\ k < i /\ i < l
          /\ Upload.stream.pages[k] = Some(<<"3","1","2",",","0","0","0"," ","s","f">>)
          /\ Upload.stream.pages[l] = Some(<<"2","8","0"," ","R","i","c","h","a","r","d","s">>)
    /\ Out.pdf_text = Some(<<"3","1","2",",","0","0","0"," ","s","f","\n","2","8","0"," ","R","i","c","h","a","r","d","s","\n">>)

====
